---- MODULE Spec2Model ----
(***************************************************************************)
(* Model of voltage-pay-nwc-wrapper: the Voltage payment client            *)
(* (src/src/VoltagePayments.ts) and the NIP-47 wallet-connect gateway      *)
(* (src/src/nwc/NWCService.ts).                                            *)
(*                                                                         *)
(* JavaScript runs one callback at a time, so one action of the model is   *)
(* the code that runs between two awaits of one unit of work: it starts    *)
(* when an awaited promise settles (a decryption, an HTTP response, a      *)
(* timer, an encryption, the relay's answer to a publish) and runs to the  *)
(* next await.  Units of work interleave only at awaits.                   *)
(***************************************************************************)
EXTENDS Integers, Sequences, FiniteSets, TLC

(* ----------------------------- bounds ---------------------------------- *)

\* units of work (inbound relay events, or client calls of the CLI) modelled
NumTasks == 2
\* largest maxRetries a caller configures in the model (1..MaxCfgRetries)
MaxCfgRetries == 2
\* largest maxRetries of a run of the CLI in the model (1..MaxCliRetries)
MaxCliRetries == 3

Tasks == 1..NumTasks

(* --------------------------- program constants ------------------------- *)

DefaultMaxRetries == 30
DefaultRetryDelay == 2000
KindInfo == 13194
KindRequest == 23194
KindResponse == 23195
KindNotification == 23196

\* Faulty variant of SUPPORTED_METHODS: a method is listed that handleRequest
\* has no case for.
SUPPORTED_METHODS_AndListTransactions ==
  <<"pay_invoice", "make_invoice", "get_balance", "get_info", "list_transactions">>

SUPPORTED_METHODS == <<"pay_invoice", "make_invoice", "get_balance", "get_info">>
SUPPORTED_NOTIFICATIONS == <<"payment_received", "payment_sent">>

\* NWCErrorCode members the service uses
NOT_IMPLEMENTED == "NOT_IMPLEMENTED"
INTERNAL == "INTERNAL"

\* JavaScript null / undefined, kept a record so that it compares with records
Null == [null |-> TRUE]
\* an optional number that is absent (undefined)
Absent == -1

SeqToSet(s) == {s[i] : i \in DOMAIN s}

(* ------------------------------- keys ---------------------------------- *)

\* the service's key pair, the key pair of the counterparty behind unit of
\* work t (every request modelled comes from another counterparty), and a key
\* pair that belongs to neither
ServiceKey == <<"service", 0>>
ClientKey(t) == <<"client", t>>
OtherKey == <<"other", 0>>

\* nip04 derives one shared secret from (own secret key, other public key);
\* it is the same for both ends of a pair and differs for every other pair.
SharedSecret(own, other) == {own, other}

\* nip04.encrypt(secret, pubkey, text)
Nip04Encrypt(own, pubkey, text) == [key |-> SharedSecret(own, pubkey), text |-> text]

\* nip04.decrypt(secret, pubkey, content) succeeds only on a ciphertext made
\* with the same shared secret
Nip04CanDecrypt(own, pubkey, content) == content.key = SharedSecret(own, pubkey)
Nip04Decrypt(own, pubkey, content) == content.text

\* JSON.stringify / JSON.parse: a text is either the serialisation of a value
\* or not JSON at all.
JsonStringify(v) == [json |-> TRUE, value |-> v]
NotJson == [json |-> FALSE, value |-> Null]
JsonParses(text) == text.json
JsonParse(text) == text.value

(* --------------------------- inbound events ---------------------------- *)

\* What a wallet-connect client can put into a request: the four supported
\* methods (pay_invoice without the optional amount) and one method the
\* service does not support.
Requests ==
       { [method |-> "pay_invoice", params |-> [invoice |-> "lnbc1", amount |-> Absent]],
         [method |-> "make_invoice", params |-> [amount |-> 21000, description |-> "d"]],
         [method |-> "get_balance", params |-> Null],
         [method |-> "get_info", params |-> Null],
         [method |-> "list_transactions", params |-> Null] }

\* The content of an inbound event: a request encrypted to the service by its
\* sender, a text encrypted to the service that is not JSON, or a ciphertext
\* the service cannot decrypt (made for another key pair).
Contents(sender) ==
  { Nip04Encrypt(sender, ServiceKey, JsonStringify(r)) : r \in Requests }
  \cup { Nip04Encrypt(sender, ServiceKey, NotJson) }
  \cup { Nip04Encrypt(sender, OtherKey, NotJson) }

EventId(t) == <<"event", t>>
NoEvent == Null

(* ------------------------ payment backend (HTTP) ----------------------- *)

OkStatuses == {200, 201, 202}
ErrorStatuses == {404, 403}
ResponseOk(status) == status \in OkStatuses

PaymentStatuses == {"sending", "receiving", "completed", "failed"}
\* PaymentResponse, reduced to the fields the code reads
PaymentRecords(id) ==
  [id : {id}, status : PaymentStatuses, payment_request : {"", "lnbc1"}, amount_msats : {21000}]
EmptyBody == Null
\* what response.json() can be given: a record, or a body that is not JSON
Bodies(status, id) == IF status = 202 THEN {EmptyBody} ELSE PaymentRecords(id) \cup {EmptyBody}

HttpErrorMessage(status) == "HTTP error! status: " \o ToString(status)
NetworkErrorMessage == "fetch failed"
JsonErrorMessage == "Unexpected end of JSON input"
CreateTimeoutMessage == "Timeout waiting for payment request to be generated"
PollTimeoutMessage(n) == "Payment status polling timed out after " \o ToString(n) \o " attempts"
OneventCatchMessage == "Internal error processing request"
EncryptErrorMessage == "encrypt failed"
PublishRejectedMessage == "relay rejected the event"
PublishTimeoutMessage == "publish timed out"

(* ------------------------------- state --------------------------------- *)

VARIABLES
  alive,         \* the node process is running
  initpc,        \* where NWCService.init (called by main) is
  maxRetries,    \* VoltagePayments.maxRetries
  retryDelay,    \* VoltagePayments.retryDelay, in ms
  config,        \* the maxRetries and retryDelay of the VoltageConfig the
                 \* client was constructed with
  nextUuid,      \* how many identifiers uuidv4() has handed out
  announced,     \* the info event the relay holds, or Null
  published,     \* the response events the relay holds
  pc,            \* per unit of work: the await it is suspended at
  ev,            \* per unit of work: the inbound event onevent was called with
  send,          \* per unit of work: the running sendResponse / sendError call
  cl,            \* per unit of work: the running VoltagePayments operation
  ret,           \* per unit of work: how its promise settled
  calls,         \* per unit of work: VoltagePayments operations it has invoked
  handlerError,  \* per unit of work: the description of the failure its handler raised
  seenPolling,   \* per unit of work: the units of work that were in a poll delay
                 \* when its event was delivered
  received       \* per unit of work: the backend has received the payment of
                 \* the invoice made for its request

vars == <<alive, initpc, maxRetries, retryDelay, config, nextUuid, announced, published,
          pc, ev, send, cl, ret, calls, handlerError, seenPolling, received>>

NoSend == [site |-> "none", response |-> Null]
NoCall == [op |-> "none", method |-> "none", retryCount |-> 0, attempts |-> 0,
           paymentId |-> <<>>, body |-> Null,
           tries |-> 0, delays |-> 0, sawRefusal |-> FALSE, only404 |-> TRUE,
           onlyNetwork |-> TRUE, fetched |-> <<>>, observed |-> <<>>,
           url |-> <<>>, posts |-> 0, gets |-> 0]
NoResult == [settled |-> "pending", value |-> Null, error |-> ""]
Resolved(v) == [settled |-> "resolved", value |-> v, error |-> ""]
Rejected(msg) == [settled |-> "rejected", value |-> Null, error |-> msg]

\* new VoltagePayments({maxRetries}): config.maxRetries || 30
ConstructorMaxRetries(cfg) == IF cfg = Absent \/ cfg = 0 THEN DefaultMaxRetries ELSE cfg

\* Both programs of the repository construct the client with the default
\* maxRetries, which is out of reach of a model checker; the model runs the
\* same code with a small configured value.
InitState ==
  /\ alive = TRUE
  /\ initpc = "connecting"
  /\ nextUuid = 0
  /\ announced = Null
  /\ published = {}
  /\ pc = [t \in Tasks |-> "idle"]
  /\ ev = [t \in Tasks |-> NoEvent]
  /\ send = [t \in Tasks |-> NoSend]
  /\ cl = [t \in Tasks |-> NoCall]
  /\ ret = [t \in Tasks |-> NoResult]
  /\ calls = [t \in Tasks |-> 0]
  /\ handlerError = [t \in Tasks |-> ""]
  /\ seenPolling = [t \in Tasks |-> {}]
  /\ received = [t \in Tasks |-> FALSE]

\* new VoltagePayments({retryDelay}): config.retryDelay || 2000
ConstructorRetryDelay(cfg) == IF cfg = Absent \/ cfg = 0 THEN DefaultRetryDelay ELSE cfg

\* new VoltagePayments(cfg), lines 83-90
Constructor(cfg) ==
  /\ config = cfg
  /\ maxRetries = ConstructorMaxRetries(cfg.maxRetries)
  /\ retryDelay = ConstructorRetryDelay(cfg.retryDelay)

\* the service: one configured value
Init ==
  /\ Constructor([maxRetries |-> MaxCfgRetries, retryDelay |-> Absent])
  /\ InitState

\* the CLI: every configured value up to the bound
InitClient ==
  /\ \E c \in 1..MaxCfgRetries : Constructor([maxRetries |-> c, retryDelay |-> Absent])
  /\ InitState

\* One run of the CLI (src/unnamed/part_000, main): the process performs the
\* one operation chosen from its menu and closes.  a is the unit of work of
\* that operation; no other is ever started.
InitCliState ==
  /\ alive = TRUE
  /\ initpc = "connecting"
  /\ nextUuid = 0
  /\ announced = Null
  /\ published = {}
  /\ \E a \in Tasks : pc = [t \in Tasks |-> IF t = a THEN "idle" ELSE "unused"]
  /\ ev = [t \in Tasks |-> NoEvent]
  /\ send = [t \in Tasks |-> NoSend]
  /\ cl = [t \in Tasks |-> NoCall]
  /\ ret = [t \in Tasks |-> NoResult]
  /\ calls = [t \in Tasks |-> 0]
  /\ handlerError = [t \in Tasks |-> ""]
  /\ seenPolling = [t \in Tasks |-> {}]
  /\ received = [t \in Tasks |-> FALSE]

InitCli ==
  /\ \E c \in 1..MaxCliRetries : Constructor([maxRetries |-> c, retryDelay |-> Absent])
  /\ InitCliState

\* what a caller can put into the VoltageConfig: the property left out, 0,
\* or a positive value
ConfigMaxRetries == {Absent, 0} \cup 1..MaxCfgRetries
ConfigRetryDelays == {Absent, 0, 500}

\* a client constructed with any of these, and one call made on it
InitConfigured ==
  /\ \E m \in ConfigMaxRetries : \E d \in ConfigRetryDelays :
       Constructor([maxRetries |-> m, retryDelay |-> d])
  /\ InitCliState

(* ---------------- what a step leaves its unit of work in --------------- *)

\* The variables a step of unit of work t can change.  Every continuation
\* below fixes all of them.
Set(t, p, s, c, r, n, h) ==
  /\ pc' = [pc EXCEPT ![t] = p]
  /\ send' = [send EXCEPT ![t] = s]
  /\ cl' = [cl EXCEPT ![t] = c]
  /\ ret' = [ret EXCEPT ![t] = r]
  /\ calls' = [calls EXCEPT ![t] = n]
  /\ handlerError' = [handlerError EXCEPT ![t] = h]
  /\ UNCHANGED <<seenPolling, received>>

\* The process ends: what it held in memory is gone.  The relay keeps the
\* events it holds and the backend its payments.
ProcessExits ==
  /\ alive' = FALSE
  /\ nextUuid' = 0
  /\ pc' = [t \in Tasks |-> "exited"]
  /\ send' = [t \in Tasks |-> NoSend]
  /\ cl' = [t \in Tasks |-> NoCall]
  /\ ret' = [t \in Tasks |-> NoResult]
  /\ calls' = [t \in Tasks |-> 0]
  /\ handlerError' = [t \in Tasks |-> ""]
  /\ seenPolling' = [t \in Tasks |-> {}]
  /\ UNCHANGED received

\* a unit of work the CLI started (no relay event behind it)
IsCli(t) == ev[t] = NoEvent

(* ------------------ NWCService: responses and events ------------------- *)

\* sendResponse, the NWCResponse it builds
SuccessResponse(method, result) ==
  [result_type |-> method, error |-> Null, result |-> result]

\* Faulty variant of ErrorResponse: result is an empty object, not null.
ErrorResponseEmptyResult(code, message) ==
  [result_type |-> "error", error |-> [code |-> code, message |-> message],
   result |-> [empty |-> TRUE]]

\* sendError, the NWCResponse it builds
ErrorResponse(code, message) ==
  [result_type |-> "error", error |-> [code |-> code, message |-> message], result |-> Null]

\* createSignedEvent(kind, content, tags, privateKey), for the tags p and e.
\* id stands for the event id finalizeEvent computes, a hash of the whole
\* event: no two events the service signs share it.  The model uses the unit
\* of work and the call site that signed the event.
CreateSignedEvent(kind, content, p, e, id) ==
  [kind |-> kind, pubkey |-> ServiceKey, content |-> content, p |-> p, e |-> e, id |-> id]

\* Faulty variant of ResponseEvent: the p tag names the service itself.
ResponseEventSelfTagged(requestEvent, response, id) ==
  CreateSignedEvent(KindResponse,
                    Nip04Encrypt(ServiceKey, requestEvent.pubkey, JsonStringify(response)),
                    ServiceKey, requestEvent.id, id)

\* sendResponse / sendError: the event built from the encrypted response
\* (lines 130-144, 161-175)
ResponseEvent(requestEvent, response, id) ==
  CreateSignedEvent(KindResponse,
                    Nip04Encrypt(ServiceKey, requestEvent.pubkey, JsonStringify(response)),
                    requestEvent.pubkey, requestEvent.id, id)

\* sendResponse / sendError were called: the response is built and
\* nip04.encrypt is awaited.  site is the call site: "sendResponse" (line
\* 110), "notImplemented" (86), "handlerCatch" (113, 115), "oneventCatch" (56).
BeginSend(t, site, response, h) ==
  /\ Set(t, "encrypt", [site |-> site, response |-> response], NoCall, ret[t], calls[t], h)
  /\ UNCHANGED <<alive, nextUuid>>

\* onevent's promise resolves
OneventResolves(t) ==
  /\ Set(t, "done", NoSend, NoCall, Resolved(Null), calls[t], handlerError[t])
  /\ UNCHANGED <<alive, nextUuid>>

\* onevent's promise rejects.  Nothing handles the rejection (relay.subscribe
\* ignores what onevent returns, index.ts installs no unhandledRejection
\* handler): node ends the process, or only warns when it is run so.
OneventRejects(t, msg) ==
  \/ /\ Set(t, "rejected", NoSend, NoCall, Rejected(msg), calls[t], handlerError[t])
     /\ UNCHANGED <<alive, nextUuid>>
  \/ ProcessExits

\* Faulty variant of OneventCatch: the failure is logged and nothing is sent.
OneventCatchLogsOnly(t) == OneventResolves(t)

\* onevent's catch block (lines 54-57)
OneventCatch(t) ==
  BeginSend(t, "oneventCatch", ErrorResponse(INTERNAL, OneventCatchMessage), handlerError[t])

\* Faulty variant of HandleRequestCatch: the failure is swallowed, no error
\* response is sent.
HandleRequestCatchSilent(t, msg, h) ==
  /\ Set(t, "done", NoSend, NoCall, Resolved(Null), calls[t], h)
  /\ UNCHANGED <<alive, nextUuid>>

\* Faulty variant of HandleRequestCatch: the failure's description is dropped
\* (the branch of line 115 taken for every failure).
HandleRequestCatchUnknown(t, msg, h) ==
  BeginSend(t, "handlerCatch", ErrorResponse(INTERNAL, "Unknown error occurred"), h)

\* handleRequest's catch block (lines 111-117): every failure here is an Error
HandleRequestCatch(t, msg, h) ==
  BeginSend(t, "handlerCatch", ErrorResponse(INTERNAL, msg), h)

\* the awaited sendResponse / sendError resolved: handleRequest returns
SendResolves(t) == OneventResolves(t)

\* the awaited sendResponse / sendError rejected with msg: the failure goes
\* to the catch block around the call, and out of onevent when there is none
SendRejects(t, msg) ==
  CASE send[t].site = "sendResponse" -> HandleRequestCatch(t, msg, handlerError[t])
    [] send[t].site = "notImplemented" -> OneventCatch(t)
    [] send[t].site = "handlerCatch" -> OneventCatch(t)
    [] send[t].site = "oneventCatch" -> OneventRejects(t, msg)

(* ----------------------- VoltagePayments (client) ---------------------- *)

\* uuidv4(): the n-th identifier handed out
Uuid(n) == <<"uuid", n>>

\* getPaymentUrl(paymentId?): the collection of payments, or one payment of
\* it; <<>> stands for the argument left out
GetPaymentUrl(paymentId) ==
  IF paymentId = <<>> THEN <<"payments">> ELSE <<"payments", paymentId>>

\* a call of an operation: its locals (paymentId, and url, method and body of
\* the HTTP call in progress, retryCount of fetchWithRetry, attempts of the poll loop) and, for
\* the fetchWithRetry call in progress, what has happened in it so far: tries
\* (HTTP requests issued), delays (retry delays slept), sawRefusal (a response
\* that is neither a success nor a 404 has arrived), only404 (every response
\* so far was a 404), onlyNetwork (every fetch so far rejected).  For the
\* operation as a whole: fetched (what each getPayment of its poll loop
\* returned: the invoice text for createPaymentRequest, the status for
\* pollPaymentStatus), observed (the statuses onStatusUpdate was called
\* with, in call order), and posts and gets (the HTTP requests of each method
\* issued so far)
Frame(op, method, id, body) ==
  [op |-> op, method |-> method, retryCount |-> 0, attempts |-> 0,
   paymentId |-> id, body |-> body,
   tries |-> 0, delays |-> 0, sawRefusal |-> FALSE, only404 |-> TRUE,
   onlyNetwork |-> TRUE, fetched |-> <<>>, observed |-> <<>>,
   url |-> IF method = "POST" THEN GetPaymentUrl(<<>>) ELSE GetPaymentUrl(id),
   posts |-> 0, gets |-> 0]

\* Faulty variant of Retry404: one retry too many.
Retry404Inclusive(status, retryCount) == status = 404 /\ retryCount <= maxRetries

\* fetchWithRetry, line 136
Retry404(status, retryCount) == status = 404 /\ retryCount < maxRetries

\* Faulty variant of RetryAfterError: one retry too many.
RetryAfterErrorInclusive(retryCount) == retryCount <= maxRetries

\* fetchWithRetry, line 156
RetryAfterError(retryCount) == retryCount < maxRetries

\* Faulty variant of PollAgain: one attempt too many.
PollAgainInclusive(attempts) == attempts <= maxRetries

\* createPaymentRequest, line 215, and pollPaymentStatus, line 303
PollAgain(attempts) == attempts < maxRetries

\* an operation returns rec to its caller: the CLI, or the handler of the
\* request (handlePayInvoice lines 219-222, handleMakeInvoice lines 235-245,
\* then sendResponse at line 110)
Returns(t, f, rec) ==
  IF IsCli(t)
  THEN /\ Set(t, "returned", NoSend, f, Resolved(rec), calls[t], handlerError[t])
       /\ UNCHANGED <<alive, nextUuid>>
  ELSE LET request == JsonParse(Nip04Decrypt(ServiceKey, ev[t].pubkey, ev[t].content))
           result == IF request.method = "pay_invoice"
                     THEN [preimage |-> rec.payment_request, fees_paid |-> rec.amount_msats]
                     ELSE [type |-> "incoming", invoice |-> rec.payment_request,
                           description |-> request.params.description,
                           payment_hash |-> rec.id, amount |-> request.params.amount]
       IN BeginSend(t, "sendResponse", SuccessResponse(request.method, result), handlerError[t])

\* an operation fails with msg: its caller is the CLI, or a handler, which
\* lets the failure through to handleRequest's catch block
Throws(t, f, msg) ==
  IF IsCli(t)
  THEN /\ Set(t, "threw", NoSend, f, Rejected(msg), calls[t], handlerError[t])
       /\ UNCHANGED <<alive, nextUuid>>
  ELSE HandleRequestCatch(t, msg, msg)

\* Faulty variant of ReturnsJson: a record whose status is not terminal is
\* not returned, the operation waits and fetches it again.
ReturnsJsonWhenTerminal(t, f, body) ==
  IF body = EmptyBody THEN Throws(t, f, JsonErrorMessage)
  ELSE IF body.status \in {"completed", "failed"} THEN Returns(t, f, body)
  ELSE /\ Set(t, "poll_wait", NoSend, f, ret[t], calls[t], handlerError[t])
       /\ UNCHANGED <<alive, nextUuid>>

\* return response.json()
ReturnsJson(t, f, body) ==
  IF body = EmptyBody THEN Throws(t, f, JsonErrorMessage) ELSE Returns(t, f, body)

\* fetch(url, options) is called for frame f (line 127): one more HTTP
\* request of f's method has been issued.  The code keeps no such count; it
\* is history, kept for the createPaymentRequest calls made directly on the
\* client.
Issued(t, f) ==
  IF IsCli(t) /\ f.op = "create"
  THEN [f EXCEPT !.posts = IF f.method = "POST" THEN @ + 1 ELSE @,
                 !.gets = IF f.method = "GET" THEN @ + 1 ELSE @]
  ELSE f

\* a call fetchWithRetry(url, options) with retryCount = 0 runs to its await
\* of fetch: one HTTP request goes out
FetchWithRetry(t, f, n) ==
  /\ Set(t, "fetch", NoSend,
         Issued(t, [f EXCEPT !.retryCount = 0, !.tries = 1, !.delays = 0,
                             !.sawRefusal = FALSE, !.only404 = TRUE, !.onlyNetwork = TRUE]),
         ret[t], n, handlerError[t])
  /\ UNCHANGED alive

\* Faulty variant of GetPayment: the record of another payment is asked for.
GetPaymentOther(t, f) ==
  /\ FetchWithRetry(t, [f EXCEPT !.method = "GET", !.body = Null,
                                 !.url = GetPaymentUrl(<<"known", 0>>)], calls[t])
  /\ UNCHANGED nextUuid

\* getPayment(paymentId), called by the operation in f with its paymentId
\* (lines 216, 270, 304)
GetPayment(t, f) ==
  /\ FetchWithRetry(t, [f EXCEPT !.method = "GET", !.body = Null,
                                 !.url = GetPaymentUrl(f.paymentId)], calls[t])
  /\ UNCHANGED nextUuid

\* Faulty variant of FetchCatch: the nested call is awaited inside the try
\* (return await), so that its failure lands in the catch block of the
\* attempt that made it, which sleeps and makes the nested call again.
FetchCatchEnclosingRetries(t, f, msg) ==
  IF RetryAfterError(f.retryCount)
  THEN /\ Set(t, "retry_wait", NoSend, f, ret[t], calls[t], handlerError[t])
       /\ UNCHANGED <<alive, nextUuid>>
  ELSE IF f.retryCount > 0
  THEN /\ Set(t, "retry_wait", NoSend, [f EXCEPT !.retryCount = @ - 1],
              ret[t], calls[t], handlerError[t])
       /\ UNCHANGED <<alive, nextUuid>>
  ELSE Throws(t, f, msg)

\* fetchWithRetry's catch block (lines 154-162): sleep and try again, or
\* rethrow to the operation, which has no catch of its own
FetchCatch(t, f, msg) ==
  IF RetryAfterError(f.retryCount)
  THEN /\ Set(t, "retry_wait", NoSend, f, ret[t], calls[t], handlerError[t])
       /\ UNCHANGED <<alive, nextUuid>>
  ELSE Throws(t, f, msg)

\* Faulty variant of HasInvoice: the first record fetched is returned.
HasInvoiceAny(rec) == TRUE

\* createPaymentRequest, line 219: payment.data.payment_request is truthy
HasInvoice(rec) == rec.payment_request # ""

\* Faulty variant of OnStatusUpdate: a status equal to the last one reported
\* is not reported again.
OnStatusUpdateSkipsRepeats(log, status) ==
  IF log # <<>> /\ log[Len(log)] = status THEN log ELSE Append(log, status)

\* pollPaymentStatus, lines 306-308: the observer is called with the status
\* of the record just fetched; log is what it has been called with so far
OnStatusUpdate(log, status) == Append(log, status)

\* Faulty variant of IsTerminal: a failed payment keeps the poll going.
IsTerminalCompletedOnly(status) == status = "completed"

\* pollPaymentStatus, line 310
IsTerminal(status) == status = "completed" \/ status = "failed"

\* the failure a poll loop ends with when its attempts are used up
\* (createPaymentRequest line 228, pollPaymentStatus line 318)
TimeoutMessage(op) ==
  IF op = "poll" THEN PollTimeoutMessage(maxRetries) ELSE CreateTimeoutMessage

\* fetchWithRetry returned a response (lines 153): the operation goes on
\* createPaymentRequest lines 211-231, sendPayment lines 267-273,
\* getPayment line 286
AfterFetch(t, f, status, body) ==
  CASE f.op = "create" /\ f.method = "POST" ->
         IF status = 202
         THEN IF PollAgain(0) THEN GetPayment(t, [f EXCEPT !.attempts = 0])
                              ELSE Throws(t, f, TimeoutMessage(f.op))
         ELSE ReturnsJson(t, f, body)
    [] f.op = "create" /\ f.method = "GET" ->
         IF body = EmptyBody THEN Throws(t, f, JsonErrorMessage)
         ELSE LET g == [f EXCEPT !.fetched = Append(@, body.payment_request)]
              IN IF HasInvoice(body) THEN Returns(t, g, body)
                 ELSE /\ Set(t, "poll_wait", NoSend, g, ret[t], calls[t], handlerError[t])
                      /\ UNCHANGED <<alive, nextUuid>>
    [] f.op = "poll" /\ f.method = "GET" ->
         IF body = EmptyBody THEN Throws(t, f, JsonErrorMessage)
         ELSE LET g == [f EXCEPT !.fetched = Append(@, body.status),
                                 !.observed = OnStatusUpdate(@, body.status)]
              IN IF IsTerminal(body.status) THEN Returns(t, g, body)
                 ELSE /\ Set(t, "poll_wait", NoSend, g, ret[t], calls[t], handlerError[t])
                      /\ UNCHANGED <<alive, nextUuid>>
    [] f.op = "send" /\ f.method = "POST" ->
         IF status = 202 THEN GetPayment(t, f) ELSE ReturnsJson(t, f, body)
    [] f.op \in {"send", "get"} /\ f.method = "GET" -> ReturnsJson(t, f, body)

\* JSON.stringify of an object: a property whose value is undefined is left
\* out of the text, any other value (0 included) is written.  key is the
\* optional number among the properties of rec.
DropUndefined(rec, key) ==
  [k \in DOMAIN rec \ (IF rec[key] = Absent THEN {key} ELSE {}) |-> rec[k]]

\* pollPaymentStatus(paymentId, onStatusUpdate), to its first await (lines
\* 300-304)
PollPaymentStatus(t, id) ==
  LET f == Frame("poll", "GET", id, Null)
  IN IF PollAgain(0)
     THEN /\ FetchWithRetry(t, f, calls[t] + 1)
          /\ UNCHANGED nextUuid
     ELSE Throws(t, f, TimeoutMessage("poll"))

\* createPaymentRequest(params), to its first await (lines 192-209)
CreatePaymentRequest(t, params) ==
  /\ FetchWithRetry(t, Frame("create", "POST", Uuid(nextUuid),
                             [id |-> Uuid(nextUuid), amount_msats |-> params.amount_msats,
                              payment_kind |-> "bolt11"]),
                    calls[t] + 1)
  /\ nextUuid' = nextUuid + 1

\* sendPayment(params), to its first await (lines 246-265)
SendPayment(t, params) ==
  /\ FetchWithRetry(t, Frame("send", "POST", Uuid(nextUuid),
                             [id |-> Uuid(nextUuid), type |-> "bolt11",
                              data |-> DropUndefined(
                                         [amount_msats |-> params.amount_msats,
                                          payment_request |-> params.payment_request],
                                         "amount_msats")]),
                    calls[t] + 1)
  /\ nextUuid' = nextUuid + 1

(* -------------------------- client: the steps -------------------------- *)

\* Faulty variant of Resumes: a delay that blocks the event loop (a busy wait
\* in place of the timer), so that nothing resumes while a unit of work sleeps.
ResumesBlocking(t, p) ==
  /\ alive /\ pc[t] = p
  /\ \A u \in Tasks \ {t} : pc[u] \notin {"retry_wait", "poll_wait"}

\* Unit of work t is suspended at await p and the promise it awaits has
\* settled: the event loop resumes it, whatever the other units of work are
\* waiting for.  The delays are timers (await new Promise(resolve =>
\* setTimeout(resolve, retryDelay)), lines 138, 158, 224): they suspend the
\* unit of work that sleeps and nothing else.
Resumes(t, p) == alive /\ pc[t] = p

\* The call in progress once the outcome of its fetch is known: status, or 0
\* for a fetch that rejected.  The code keeps no such record; the fields
\* sawRefusal and only404 are the history of a call by which the properties
\* of the retry logic are stated, and they are kept for the calls made
\* directly on the client.
Observed(t, status) ==
  IF IsCli(t)
  THEN [cl[t] EXCEPT !.only404 = @ /\ status = 404,
                     !.sawRefusal = @ \/ (status # 0 /\ ~ResponseOk(status) /\ status # 404),
                     !.onlyNetwork = @ /\ status = 0]
  ELSE cl[t]

\* the awaited fetch resolves with a response (fetchWithRetry lines 127-153)
HttpResponseOf(t, status, body) ==
  LET f == Observed(t, status)
  IN IF Retry404(status, f.retryCount)
     THEN /\ Set(t, "retry_wait", NoSend, f, ret[t], calls[t], handlerError[t])
          /\ UNCHANGED <<alive, nextUuid>>
     ELSE IF ~ResponseOk(status)
     THEN FetchCatch(t, f, HttpErrorMessage(status))
     ELSE AfterFetch(t, f, status, body)

\* the payment an HTTP request is about: the one its url names, or the one
\* its body creates
AskedId(f) == IF Len(f.url) = 2 THEN f.url[2] ELSE f.body.id

\* the backend answers the HTTP request of t: any status, and a body that is
\* not JSON or is the record of the payment asked for
HttpResponse(t) ==
  /\ Resumes(t, "fetch")
  /\ \E status \in OkStatuses \cup ErrorStatuses :
       \E body \in (IF ResponseOk(status) THEN Bodies(status, AskedId(cl[t])) ELSE {EmptyBody}) :
         HttpResponseOf(t, status, body)
  /\ UNCHANGED <<initpc, maxRetries, retryDelay, config, announced, published, ev>>

\* the awaited fetch rejects: a network-level failure (lines 154-162)
NetworkError(t) ==
  /\ Resumes(t, "fetch")
  /\ FetchCatch(t, Observed(t, 0), NetworkErrorMessage)
  /\ UNCHANGED <<initpc, maxRetries, retryDelay, config, announced, published, ev>>

\* Faulty variant of RetryTimer: the operation, not fetchWithRetry, repeats
\* the POST, with an identifier generated anew.
RetryTimerNewId(t) ==
  /\ Resumes(t, "retry_wait")
  /\ LET id == IF cl[t].method = "POST" THEN Uuid(nextUuid) ELSE cl[t].paymentId
     IN Set(t, "fetch", NoSend,
            Issued(t, [cl[t] EXCEPT !.retryCount = @ + 1, !.tries = @ + 1, !.delays = @ + 1,
                          !.paymentId = id,
                          !.body = IF cl[t].method = "POST" THEN [@ EXCEPT !.id = id] ELSE @]),
            ret[t], calls[t], handlerError[t])
  /\ nextUuid' = IF cl[t].method = "POST" THEN nextUuid + 1 ELSE nextUuid
  /\ UNCHANGED <<alive, initpc, maxRetries, retryDelay, config, announced, published, ev>>

\* the retry delay of fetchWithRetry is over (lines 138-139, 158-159): the
\* nested call fetchWithRetry(url, options, retryCount + 1) issues its fetch
RetryTimer(t) ==
  /\ Resumes(t, "retry_wait")
  /\ Set(t, "fetch", NoSend,
         Issued(t, [cl[t] EXCEPT !.retryCount = @ + 1, !.tries = @ + 1, !.delays = @ + 1]),
         ret[t], calls[t], handlerError[t])
  /\ UNCHANGED <<alive, nextUuid, initpc, maxRetries, retryDelay, config, announced, published, ev>>

\* Faulty variant of PollTimer: attempts is not counted up.
PollTimerNoCount(t) ==
  /\ Resumes(t, "poll_wait")
  /\ GetPayment(t, cl[t])
  /\ UNCHANGED <<initpc, maxRetries, retryDelay, config, announced, published, ev>>

\* the poll delay of createPaymentRequest (lines 224-228) or of
\* pollPaymentStatus (lines 314-318) is over
PollTimer(t) ==
  /\ Resumes(t, "poll_wait")
  /\ LET f == [cl[t] EXCEPT !.attempts = @ + 1]
     IN IF PollAgain(f.attempts) THEN GetPayment(t, f)
                                 ELSE Throws(t, f, TimeoutMessage(f.op))
  /\ UNCHANGED <<initpc, maxRetries, retryDelay, config, announced, published, ev>>

(* ------------------------------ the CLI -------------------------------- *)

\* voltage.getPayment(id) called directly
CliGetPayment(t) ==
  /\ Resumes(t, "idle")
  /\ FetchWithRetry(t, Frame("get", "GET", <<"known", 0>>, Null), calls[t] + 1)
  /\ UNCHANGED <<nextUuid, initpc, maxRetries, retryDelay, config, announced, published, ev>>

\* receivePayment of the CLI (lines 78-83)
CliCreatePaymentRequest(t) ==
  /\ Resumes(t, "idle")
  /\ CreatePaymentRequest(t, [amount_msats |-> 21000])
  /\ UNCHANGED <<initpc, maxRetries, retryDelay, config, announced, published, ev>>

\* sendPayment of the CLI (lines 150-161): amount_msats only when > 0
CliSendPayment(t) ==
  /\ Resumes(t, "idle")
  /\ \E amount \in {Absent, 21000} :
       SendPayment(t, [payment_request |-> "lnbc1", amount_msats |-> amount])
  /\ UNCHANGED <<initpc, maxRetries, retryDelay, config, announced, published, ev>>

\* receivePayment (lines 96-104) and sendPayment (lines 166-174) of the CLI:
\* the operation returned a record, and its status is polled by the record's id
CliPollPaymentStatus(t) ==
  /\ Resumes(t, "returned")
  /\ cl[t].op \in {"create", "send"}
  /\ PollPaymentStatus(t, ret[t].value.id)
  /\ UNCHANGED <<initpc, maxRetries, retryDelay, config, announced, published, ev>>

(* ------------------------- NWCService: the steps ----------------------- *)

\* params.amount || 0
OrZero(a) == IF a = Absent \/ a = 0 THEN 0 ELSE a

InfoEvent ==
  [kind |-> KindInfo, pubkey |-> ServiceKey, content |-> SUPPORTED_METHODS,
   notifications |-> SUPPORTED_NOTIFICATIONS]

\* init: ensureRelay resolved; the subscription is registered and
\* publishInfoEvent awaits the relay's answer (lines 38-62, 68-79)
InitConnect ==
  /\ alive /\ initpc = "connecting"
  /\ initpc' = "announcing"
  /\ UNCHANGED <<alive, maxRetries, retryDelay, config, nextUuid, announced, published,
                 pc, ev, send, cl, ret, calls, handlerError, seenPolling, received>>

\* init: ensureRelay rejected; main's catch ends the process (index.ts 78-81)
InitConnectFails ==
  /\ alive /\ initpc = "connecting"
  /\ initpc' = "exited" /\ ProcessExits
  /\ UNCHANGED <<maxRetries, retryDelay, config, announced, published, ev>>

\* the relay accepted the info event: init resolves
InfoPublished ==
  /\ alive /\ initpc = "announcing"
  /\ initpc' = "ready" /\ announced' = InfoEvent
  /\ UNCHANGED <<alive, maxRetries, retryDelay, config, nextUuid, published,
                 pc, ev, send, cl, ret, calls, handlerError, seenPolling, received>>

\* the publish of the info event rejected (the relay may hold the event all
\* the same): init rejects and main's catch ends the process
InfoPublishFails ==
  /\ alive /\ initpc = "announcing"
  /\ initpc' = "exited" /\ ProcessExits
  /\ announced' \in {Null, InfoEvent}
  /\ UNCHANGED <<maxRetries, retryDelay, config, published, ev>>

\* createPaymentRequest is in its poll loop for unit of work u (lines
\* 215-226): in a getPayment call or in the delay after one
Polling(u) == cl[u].op = "create" /\ cl[u].method = "GET"

\* the relay delivers an event that matches the subscription: onevent is
\* called and awaits nip04.decrypt (lines 45-51)
Deliver(t) ==
  /\ Resumes(t, "idle") /\ initpc \in {"announcing", "ready"}
  /\ \E content \in Contents(ClientKey(t)) :
       ev' = [ev EXCEPT ![t] = [id |-> EventId(t), kind |-> KindRequest,
                                pubkey |-> ClientKey(t), content |-> content,
                                p |-> ServiceKey]]
  /\ pc' = [pc EXCEPT ![t] = "decrypt"]
  /\ seenPolling' = [seenPolling EXCEPT ![t] = {u \in Tasks : Polling(u)}]
  /\ UNCHANGED <<alive, initpc, maxRetries, retryDelay, config, nextUuid, announced, published,
                 send, cl, ret, calls, handlerError, received>>

\* Faulty variant of Supported: no method is turned away.
SupportedAny(method) == TRUE

\* SUPPORTED_METHODS.includes(request.method), line 85
Supported(method) == method \in SeqToSet(SUPPORTED_METHODS)

\* Faulty variant of HandleRequest: get_balance asks the backend.
HandleRequestBalanceFromBackend(t, request) ==
  IF ~Supported(request.method)
  THEN BeginSend(t, "notImplemented",
                 ErrorResponse(NOT_IMPLEMENTED, "Method " \o request.method \o " not supported"),
                 handlerError[t])
  ELSE CASE request.method = "pay_invoice" ->
              SendPayment(t, [payment_request |-> request.params.invoice,
                              amount_msats |-> OrZero(request.params.amount)])
                /\ UNCHANGED alive
         [] request.method = "make_invoice" ->
              CreatePaymentRequest(t, [amount_msats |-> request.params.amount])
                /\ UNCHANGED alive
         [] request.method = "get_balance" ->
              FetchWithRetry(t, Frame("get", "GET", <<"known", 0>>, Null), calls[t] + 1)
                /\ UNCHANGED nextUuid
         [] request.method = "get_info" ->
              BeginSend(t, "sendResponse",
                        SuccessResponse(request.method,
                                        [alias |-> "Voltage Pay NWC", pubkey |-> ServiceKey,
                                         methods |-> SUPPORTED_METHODS,
                                         notifications |-> SUPPORTED_NOTIFICATIONS]),
                        handlerError[t])
         [] OTHER ->
              HandleRequestCatch(t, "Unhandled method: " \o request.method,
                                 "Unhandled method: " \o request.method)

\* handleRequest(event, request), to its first await (lines 84-108)
HandleRequest(t, request) ==
  IF ~Supported(request.method)
  THEN BeginSend(t, "notImplemented",
                 ErrorResponse(NOT_IMPLEMENTED, "Method " \o request.method \o " not supported"),
                 handlerError[t])
  ELSE CASE request.method = "pay_invoice" ->
              SendPayment(t, [payment_request |-> request.params.invoice,
                              amount_msats |-> OrZero(request.params.amount)])
                /\ UNCHANGED alive
         [] request.method = "make_invoice" ->
              CreatePaymentRequest(t, [amount_msats |-> request.params.amount])
                /\ UNCHANGED alive
         [] request.method = "get_balance" ->
              BeginSend(t, "sendResponse", SuccessResponse(request.method, [balance |-> 0]),
                        handlerError[t])
         [] request.method = "get_info" ->
              BeginSend(t, "sendResponse",
                        SuccessResponse(request.method,
                                        [alias |-> "Voltage Pay NWC", pubkey |-> ServiceKey,
                                         methods |-> SUPPORTED_METHODS,
                                         notifications |-> SUPPORTED_NOTIFICATIONS]),
                        handlerError[t])
         [] OTHER ->
              HandleRequestCatch(t, "Unhandled method: " \o request.method,
                                 "Unhandled method: " \o request.method)

\* the awaited nip04.decrypt settles; on success onevent parses the request
\* and calls handleRequest (lines 46-57)
Decrypted(t) ==
  /\ Resumes(t, "decrypt")
  /\ IF ~Nip04CanDecrypt(ServiceKey, ev[t].pubkey, ev[t].content)
     THEN OneventCatch(t)
     ELSE LET text == Nip04Decrypt(ServiceKey, ev[t].pubkey, ev[t].content)
          IN IF ~JsonParses(text) THEN OneventCatch(t)
             ELSE HandleRequest(t, JsonParse(text))
  /\ UNCHANGED <<initpc, maxRetries, retryDelay, config, announced, published, ev>>

\* the awaited nip04.encrypt resolves: the event is built and signed and
\* relay.publish is awaited (lines 130-148, 161-179)
Encrypted(t) ==
  /\ Resumes(t, "encrypt")
  /\ pc' = [pc EXCEPT ![t] = "publish"]
  /\ UNCHANGED <<alive, initpc, maxRetries, retryDelay, config, nextUuid, announced, published,
                 ev, send, cl, ret, calls, handlerError, seenPolling, received>>

\* the awaited nip04.encrypt rejects
EncryptFails(t) ==
  /\ Resumes(t, "encrypt")
  /\ SendRejects(t, EncryptErrorMessage)
  /\ UNCHANGED <<initpc, maxRetries, retryDelay, config, announced, published, ev>>

\* relay.publish resolves: the relay answered OK and holds the event
Published(t) ==
  /\ Resumes(t, "publish")
  /\ published' = published \cup {ResponseEvent(ev[t], send[t].response, <<t, send[t].site>>)}
  /\ SendResolves(t)
  /\ UNCHANGED <<initpc, maxRetries, retryDelay, config, announced, ev>>

\* relay.publish rejects: the relay refused the event
PublishRejected(t) ==
  /\ Resumes(t, "publish")
  /\ SendRejects(t, PublishRejectedMessage)
  /\ UNCHANGED <<initpc, maxRetries, retryDelay, config, announced, published, ev>>

\* relay.publish rejects although the relay holds the event: the event was
\* sent, and the relay's OK did not arrive before the publish timeout or the
\* connection closed
PublishTimeout(t) ==
  /\ Resumes(t, "publish")
  /\ published' = published \cup {ResponseEvent(ev[t], send[t].response, <<t, send[t].site>>)}
  /\ SendRejects(t, PublishTimeoutMessage)
  /\ UNCHANGED <<initpc, maxRetries, retryDelay, config, announced, ev>>

(* --------------------------- specifications ---------------------------- *)

\* the service (src/src/index.ts)
Next ==
  \/ InitConnect
  \/ InitConnectFails
  \/ InfoPublished
  \/ InfoPublishFails
  \/ \E t \in Tasks : Deliver(t)
  \/ \E t \in Tasks : Decrypted(t)
  \/ \E t \in Tasks : HttpResponse(t)
  \/ \E t \in Tasks : NetworkError(t)
  \/ \E t \in Tasks : RetryTimer(t)
  \/ \E t \in Tasks : PollTimer(t)
  \/ \E t \in Tasks : Encrypted(t)
  \/ \E t \in Tasks : EncryptFails(t)
  \/ \E t \in Tasks : Published(t)
  \/ \E t \in Tasks : PublishRejected(t)
  \/ \E t \in Tasks : PublishTimeout(t)

Spec == Init /\ [][Next]_vars

\* the CLI: calls of the client's operations
NextClient ==
  \/ \E t \in Tasks : CliGetPayment(t)
  \/ \E t \in Tasks : CliCreatePaymentRequest(t)
  \/ \E t \in Tasks : CliSendPayment(t)
  \/ \E t \in Tasks : HttpResponse(t)
  \/ \E t \in Tasks : NetworkError(t)
  \/ \E t \in Tasks : RetryTimer(t)
  \/ \E t \in Tasks : PollTimer(t)

SpecClient == InitClient /\ [][NextClient]_vars

\* one run of the CLI: an operation, then the poll of the payment's status
NextCli ==
  \/ \E t \in Tasks : CliGetPayment(t)
  \/ \E t \in Tasks : CliCreatePaymentRequest(t)
  \/ \E t \in Tasks : CliSendPayment(t)
  \/ \E t \in Tasks : CliPollPaymentStatus(t)
  \/ \E t \in Tasks : HttpResponse(t)
  \/ \E t \in Tasks : NetworkError(t)
  \/ \E t \in Tasks : RetryTimer(t)
  \/ \E t \in Tasks : PollTimer(t)

SpecCli == InitCli /\ [][NextCli]_vars

\* a client constructed with any configuration, and one getPayment on it
NextConfigured ==
  \/ \E t \in Tasks : CliGetPayment(t)
  \/ \E t \in Tasks : HttpResponse(t)
  \/ \E t \in Tasks : NetworkError(t)
  \/ \E t \in Tasks : RetryTimer(t)

SpecConfigured == InitConfigured /\ [][NextConfigured]_vars

\* Every HTTP call completes, with a response or a failure, and every timer
\* set with setTimeout fires.
CallsComplete(t) ==
  WF_vars(HttpResponse(t) \/ NetworkError(t) \/ RetryTimer(t) \/ PollTimer(t))

FairSpecCli == InitCli /\ [][NextCli]_vars /\ \A t \in Tasks : CallsComplete(t)

\* The service while nip04 and the relay do not fail: encryptions succeed and
\* the relay accepts and acknowledges every publish.  The payment backend is
\* as free as in Spec.
NextReliable ==
  \/ InitConnect
  \/ InitConnectFails
  \/ InfoPublished
  \/ \E t \in Tasks : Deliver(t)
  \/ \E t \in Tasks : Decrypted(t)
  \/ \E t \in Tasks : HttpResponse(t)
  \/ \E t \in Tasks : NetworkError(t)
  \/ \E t \in Tasks : RetryTimer(t)
  \/ \E t \in Tasks : PollTimer(t)
  \/ \E t \in Tasks : Encrypted(t)
  \/ \E t \in Tasks : Published(t)

\* Every awaited promise settles: a decryption, an encryption and a publish
\* resolve, and every HTTP call completes, with a response or a failure.  A
\* unit of work awaits one promise at a time, so that one condition on the
\* disjunction is a condition on each.
Settles(t) ==
  WF_vars(Decrypted(t) \/ HttpResponse(t) \/ NetworkError(t) \/ Encrypted(t) \/ Published(t))

\* Every timer set with setTimeout fires.
TimersFire(t) == WF_vars(RetryTimer(t) \/ PollTimer(t))

FairSpec ==
  Init /\ [][NextReliable]_vars /\ \A t \in Tasks : Settles(t) /\ TimersFire(t)

\* FairSpec without the timers: a delay may last for ever.
FairSpecSlowTimers ==
  Init /\ [][NextReliable]_vars /\ \A t \in Tasks : Settles(t)

\* The payer pays the invoice the relay holds in the make_invoice response to
\* t: the backend's record of the payment reaches completed.  Nothing in the
\* service runs at that moment: it keeps no poll of the payment, and the
\* backend calls nothing of it.
PaymentReceived(t) ==
  /\ ev[t] # NoEvent /\ ~received[t]
  /\ \E x \in published :
       x.e = ev[t].id /\ JsonParse(x.content.text).result_type = "make_invoice"
  /\ received' = [received EXCEPT ![t] = TRUE]
  /\ UNCHANGED <<alive, initpc, maxRetries, retryDelay, config, nextUuid, announced, published,
                 pc, ev, send, cl, ret, calls, handlerError, seenPolling>>

\* the service of FairSpec, and payers who pay the invoices it made
NextNotify ==
  \/ InitConnect
  \/ InitConnectFails
  \/ InfoPublished
  \/ \E t \in Tasks : Deliver(t)
  \/ \E t \in Tasks : Decrypted(t)
  \/ \E t \in Tasks : HttpResponse(t)
  \/ \E t \in Tasks : NetworkError(t)
  \/ \E t \in Tasks : RetryTimer(t)
  \/ \E t \in Tasks : PollTimer(t)
  \/ \E t \in Tasks : Encrypted(t)
  \/ \E t \in Tasks : Published(t)
  \/ \E t \in Tasks : PaymentReceived(t)

FairSpecNotify ==
  Init /\ [][NextNotify]_vars /\ \A t \in Tasks : Settles(t) /\ TimersFire(t)

(* ------------------------------ properties ----------------------------- *)

\* onevent was called for the event of unit of work t
Delivered(t) == ev[t] # NoEvent

\* nip04.decrypt(privateKey, event.pubkey, event.content) succeeds / fails
Decryptable(t) == Delivered(t) /\ Nip04CanDecrypt(ServiceKey, ev[t].pubkey, ev[t].content)
DecryptFails(t) == Delivered(t) /\ ~Nip04CanDecrypt(ServiceKey, ev[t].pubkey, ev[t].content)

\* the decrypted content is a request (JSON.parse succeeds), and the request
IsRequest(t) ==
  Decryptable(t) /\ JsonParses(Nip04Decrypt(ServiceKey, ev[t].pubkey, ev[t].content))
RequestOf(t) == JsonParse(Nip04Decrypt(ServiceKey, ev[t].pubkey, ev[t].content))

\* the response events the relay holds that reference the event of t
ResponsesTo(t) == {x \in published : x.e = ev[t].id}
Answered(t) == Delivered(t) /\ ResponsesTo(t) # {}

\* what the holder of key reads in a response event, and whether it can
Readable(x, key) == Nip04CanDecrypt(key, x.pubkey, x.content)
Payload(x) == JsonParse(x.content.text)
IsSuccess(x) == Payload(x).error = Null
ErrorCodeOf(x) == IF IsSuccess(x) THEN "" ELSE Payload(x).error.code

\* C1 (as stated): for every delivered request whose decryption succeeds, the
\* relay never holds more than one response event that references the
\* request's id, whichever of the handler, the encryption and the publish
\* fail.
C1_AtMostOneResponse ==
  \A t \in Tasks : Decryptable(t) => Cardinality(ResponsesTo(t)) <= 1

\* C2: every delivered request whose decryption succeeds is eventually
\* answered by a response event that references it, also when parsing,
\* dispatch or the payment client fails.  Stated for a relay and an nip04
\* that do not fail and promises that settle (FairSpec).
C2_EveryRequestAnswered ==
  \A t \in Tasks : Decryptable(t) ~> Answered(t)

\* C2, its case: a request whose handler failed in the payment client, and a
\* message that decrypted and did not parse, both answered.
C2_Witness ==
  \E t, u \in Tasks :
    /\ handlerError[t] # "" /\ pc[t] = "done" /\ Answered(t)
    /\ Decryptable(u) /\ ~IsRequest(u) /\ pc[u] = "done" /\ Answered(u)

\* the method of the request of t is not one of SUPPORTED_METHODS
Unsupported(t) == IsRequest(t) /\ RequestOf(t).method \notin SeqToSet(SUPPORTED_METHODS)

\* C3: a request for an unsupported method never starts a payment operation
\* (no HTTP request goes out for it), every response to it carries the code
\* NOT_IMPLEMENTED, and such a response is eventually published.  Stated for
\* a relay and an nip04 that do not fail (FairSpec).
C3_UnsupportedNotImplemented ==
  \A t \in Tasks :
    /\ [](Unsupported(t) =>
           /\ calls[t] = 0 /\ cl[t] = NoCall
           /\ \A x \in ResponsesTo(t) : ErrorCodeOf(x) = NOT_IMPLEMENTED)
    /\ (Unsupported(t) ~> Answered(t))

\* C3, its case: an unsupported method handled to the end and answered
C3_Witness ==
  \E t \in Tasks :
    /\ Unsupported(t) /\ pc[t] = "done" /\ calls[t] = 0
    /\ \E x \in ResponsesTo(t) : ErrorCodeOf(x) = NOT_IMPLEMENTED

\* C4: when the handler of a supported method fails, every response to the
\* request is the error response with code INTERNAL and the failure's
\* description as message (so no success response), and it is eventually
\* published.  Stated for a relay and an nip04 that do not fail (FairSpec).
C4_HandlerFailureInternal ==
  \A t \in Tasks :
    /\ [](handlerError[t] # "" =>
           \A x \in ResponsesTo(t) : Payload(x) = ErrorResponse(INTERNAL, handlerError[t]))
    /\ (handlerError[t] # "" ~> Answered(t))

\* C4, its case: a poll that timed out and an HTTP refusal, both answered
\* with their own description
C4_Witness ==
  \E t, u \in Tasks :
    /\ handlerError[t] = CreateTimeoutMessage /\ handlerError[u] = HttpErrorMessage(403)
    /\ \E x \in ResponsesTo(t) : Payload(x) = ErrorResponse(INTERNAL, CreateTimeoutMessage)
    /\ \E x \in ResponsesTo(u) : Payload(x) = ErrorResponse(INTERNAL, HttpErrorMessage(403))

\* the request event a response event was built for: the event of the unit of
\* work that signed it
OriginOf(x) == ev[x.id[1]]

\* C5: every response event is encrypted to the sender key of the request it
\* was built for, its p tag is that sender's public key and its e tag is that
\* request's id; it carries neither the id nor the key of another request.
C5_ResponseCorrelated ==
  \A x \in published :
    /\ x.p = OriginOf(x).pubkey
    /\ x.e = OriginOf(x).id
    /\ x.content.key = SharedSecret(ServiceKey, OriginOf(x).pubkey)
    /\ Readable(x, OriginOf(x).pubkey)
    /\ \A u \in Tasks \ {x.id[1]} :
         Delivered(u) => x.e # ev[u].id /\ x.p # ev[u].pubkey /\ ~Readable(x, ev[u].pubkey)

\* C5, its case: two requests in flight at once (the second arrived while the
\* first was polling), both answered
C5_Witness ==
  \E t, u \in Tasks :
    /\ t \in seenPolling[u]
    /\ Answered(t) /\ Answered(u)

\* C6 (as stated): when the decryption of a delivered message fails, no
\* response event is published for it.
C6_NoResponseOnDecryptFailure ==
  \A t \in Tasks : DecryptFails(t) => ResponsesTo(t) = {}

\* C6 (amended): when the decryption of a delivered message fails, no payment
\* operation is started for it and no success response is published, and the
\* failure is not only logged: the one thing sent for it is the error
\* response INTERNAL / 'Internal error processing request' of onevent's catch
\* block, encrypted to the sender and tagged with the message's id, and
\* onevent does not resolve without the relay holding it.
C6_DecryptFailureAnsweredInternal ==
  \A t \in Tasks : DecryptFails(t) =>
    /\ calls[t] = 0 /\ cl[t] = NoCall
    /\ pc[t] \in {"encrypt", "publish"} => send[t].site = "oneventCatch"
    /\ ResponsesTo(t) \subseteq
         {ResponseEvent(ev[t], ErrorResponse(INTERNAL, OneventCatchMessage), <<t, "oneventCatch">>)}
    /\ pc[t] = "done" => ResponsesTo(t) # {}

\* C6, its case: a message that did not decrypt, handled to the end
C6_Witness ==
  \E t \in Tasks :
    /\ DecryptFails(t) /\ pc[t] = "done"
    /\ \E x \in ResponsesTo(t) : ErrorCodeOf(x) = INTERNAL /\ x.p = ev[t].pubkey

\* C7 (as stated, on the steps taken for the message): a decryption failure
\* affects only the message it occurred on, so no step taken for a message
\* whose decryption failed ends the process, which has later requests to
\* handle and answer.
C7_DecryptFailureContained ==
  [][\A t \in Tasks :
       (DecryptFails(t) /\ (EncryptFails(t) \/ PublishRejected(t) \/ PublishTimeout(t)))
         => alive']_vars

\* the request of b asks for get_info
GetInfo(b) == IsRequest(b) /\ RequestOf(b).method = "get_info"

\* the relay holds the get_info response to b, tagged to b's sender
AnsweredGetInfo(b) ==
  /\ Delivered(b)
  /\ \E x \in ResponsesTo(b) :
       x.p = ev[b].pubkey /\ IsSuccess(x) /\ Payload(x).result_type = "get_info"

\* the relay holds the make_invoice response to a
AnsweredMakeInvoice(a) ==
  /\ Delivered(a)
  /\ \E x \in ResponsesTo(a) : IsSuccess(x) /\ Payload(x).result_type = "make_invoice"

C9_RefusalNotRetried ==
  \A t \in Tasks : cl[t].sawRefusal => pc[t] = "threw"

\* C10: while every response to the GETs of a getPayment call was a 404, the
\* call has issued at most maxRetries + 1 fetches, has slept one retry delay
\* before each fetch but the first, and has not returned; when it fails it
\* has issued exactly maxRetries + 1 fetches and fails with the 404.
C10_NotFoundRetriesBounded ==
  \A t \in Tasks : (cl[t].op = "get" /\ cl[t].only404) =>
    /\ cl[t].tries <= maxRetries + 1
    /\ cl[t].delays = cl[t].tries - 1
    /\ cl[t].retryCount = cl[t].tries - 1
    /\ pc[t] \in {"fetch", "retry_wait", "threw"}
    /\ pc[t] = "retry_wait" => cl[t].tries <= maxRetries
    /\ pc[t] = "threw" =>
         cl[t].tries = maxRetries + 1 /\ ret[t] = Rejected(HttpErrorMessage(404))

\* C10, its case: a getPayment call that failed after 404s only
C10_Witness ==
  \E t \in Tasks :
    /\ cl[t].op = "get" /\ cl[t].only404 /\ pc[t] = "threw"
    /\ cl[t].tries = maxRetries + 1 /\ cl[t].delays = maxRetries

\* every entry of a sequence of invoice texts is empty
AllEmpty(seq) == \A i \in DOMAIN seq : seq[i] = ""

\* all entries of a sequence but the last
Front(seq) == SubSeq(seq, 1, Len(seq) - 1)

\* createPaymentRequest of t was answered 202 and has returned / has failed
CreateReturned(t) == Polling(t) /\ pc[t] = "returned"
CreateThrew(t) == Polling(t) /\ pc[t] = "threw"

\* C11: after a 202, createPaymentRequest returns only a record it fetched by
\* id whose invoice text is not empty; it fetches at most maxRetries records;
\* once maxRetries records without invoice text were fetched it fetches no
\* more and fails with the Timeout, and it fails with the Timeout in no other
\* case; and while HTTP calls complete and timers fire, the call ends.
C11_CreateReturnsInvoiceOrTimeout ==
  /\ [](\A t \in Tasks : Polling(t) =>
          /\ Len(cl[t].fetched) <= maxRetries
          /\ pc[t] = "returned" =>
               /\ ret[t].value \in PaymentRecords(cl[t].paymentId)
               /\ ret[t].value.payment_request # ""
               /\ ret[t].value.payment_request = cl[t].fetched[Len(cl[t].fetched)]
          /\ (AllEmpty(cl[t].fetched) /\ Len(cl[t].fetched) = maxRetries) =>
               /\ pc[t] \in {"poll_wait", "threw"}
               /\ pc[t] = "threw" => ret[t] = Rejected(CreateTimeoutMessage)
          /\ ret[t].error = CreateTimeoutMessage =>
               AllEmpty(cl[t].fetched) /\ Len(cl[t].fetched) = maxRetries)
  /\ \A t \in Tasks :
       Polling(t) ~> (CreateReturned(t) \/ CreateThrew(t) \/ cl[t].op = "poll")

\* C11, its case: maxRetries records without invoice text, then the Timeout
C11_Witness ==
  \E t \in Tasks :
    /\ CreateThrew(t) /\ ret[t] = Rejected(CreateTimeoutMessage)
    /\ maxRetries = 3 /\ cl[t].fetched = <<"", "", "">>

\* C12: when a record fetched by createPaymentRequest is the first with
\* invoice text, the call has returned that record and has fetched nothing
\* after it; it does not return a record fetched earlier: the records before
\* the one returned had no invoice text.  With the text on the third fetch
\* that is a return after exactly 3 fetches.
C12_ReturnsOnFirstInvoice ==
  \A t \in Tasks : Polling(t) =>
    /\ ~AllEmpty(cl[t].fetched) =>
         /\ pc[t] = "returned"
         /\ cl[t].fetched[Len(cl[t].fetched)] # ""
         /\ ret[t].value.payment_request = cl[t].fetched[Len(cl[t].fetched)]
         /\ cl[t].attempts = Len(cl[t].fetched) - 1
    /\ AllEmpty(Front(cl[t].fetched))
    /\ pc[t] = "returned" => ~AllEmpty(cl[t].fetched)

\* C12, its case: the invoice text arrives with the third record fetched
C12_Witness ==
  \E t \in Tasks :
    /\ CreateReturned(t) /\ cl[t].fetched = <<"", "", "lnbc1">>
    /\ ret[t].value.payment_request = "lnbc1" /\ cl[t].attempts = 2

\* the statuses that end a payment, and a sequence of statuses without one
TerminalStatuses == {"completed", "failed"}
NoneTerminal(seq) == \A i \in DOMAIN seq : seq[i] \notin TerminalStatuses

\* pollPaymentStatus is the operation of t
InPoll(t) == cl[t].op = "poll"

\* C13: pollPaymentStatus has called its observer once for each record it
\* fetched, with that record's status, in fetch order, repeated statuses
\* included; it has returned exactly when the last status fetched is
\* terminal, no status before the last is, and what it returns is that last
\* record; once it has returned the observer is not called again.
C13_ObserverOncePerFetch ==
  /\ [](\A t \in Tasks : InPoll(t) =>
          /\ cl[t].observed = cl[t].fetched
          /\ NoneTerminal(Front(cl[t].fetched))
          /\ pc[t] = "returned" <=>
               (cl[t].fetched # <<>> /\ cl[t].fetched[Len(cl[t].fetched)] \in TerminalStatuses)
          /\ pc[t] = "returned" => ret[t].value.status = cl[t].fetched[Len(cl[t].fetched)])
  /\ [][\A t \in Tasks :
          (InPoll(t) /\ pc[t] = "returned") => cl'[t].observed = cl[t].observed]_vars

\* C13, its case: a status seen twice, then a terminal one
C13_Witness ==
  \E t \in Tasks :
    /\ InPoll(t) /\ pc[t] = "returned"
    /\ cl[t].observed = <<"sending", "sending", "completed">>

\* C14: pollPaymentStatus fetches at most maxRetries records; once
\* maxRetries records without a terminal status were fetched it fetches no
\* more and fails with the Timeout, and it fails with the Timeout in no other
\* case; a record whose status is failed is returned as the result.
C14_PollTimeoutAfterMaxRetries ==
  \A t \in Tasks : InPoll(t) =>
    /\ Len(cl[t].fetched) <= maxRetries
    /\ (NoneTerminal(cl[t].fetched) /\ Len(cl[t].fetched) = maxRetries) =>
         /\ pc[t] \in {"poll_wait", "threw"}
         /\ pc[t] = "threw" => ret[t] = Rejected(PollTimeoutMessage(maxRetries))
    /\ ret[t].error = PollTimeoutMessage(maxRetries) =>
         NoneTerminal(cl[t].fetched) /\ Len(cl[t].fetched) = maxRetries
    /\ (cl[t].fetched # <<>> /\ cl[t].fetched[Len(cl[t].fetched)] = "failed") =>
         /\ pc[t] = "returned"
         /\ ret[t].settled = "resolved" /\ ret[t].value.status = "failed"

\* C14, its case: maxRetries records without a terminal status, then the
\* Timeout
C14_Witness ==
  \E t \in Tasks :
    /\ InPoll(t) /\ pc[t] = "threw" /\ maxRetries = 3
    /\ cl[t].fetched = <<"sending", "receiving", "sending">>
    /\ ret[t] = Rejected(PollTimeoutMessage(3))

\* the event of t is a pay_invoice request
PayInvoice(t) == IsRequest(t) /\ RequestOf(t).method = "pay_invoice"

\* C15 (as stated): when the backend's answer to a call of sendPayment made
\* for a pay_invoice request carries a record, and handlePayInvoice goes on to
\* sendResponse with the result made from it, the record's status is
\* completed.
C15_SuccessOnlyWhenCompleted ==
  [][\A t \in Tasks : (PayInvoice(t) /\ Resumes(t, "fetch")) =>
       \A status \in OkStatuses :
         \A body \in Bodies(status, AskedId(cl[t])) \ {EmptyBody} :
           (HttpResponseOf(t, status, body) /\ send'[t].site = "sendResponse")
           => body.status = "completed"]_vars

\* C16 (as stated): the body of the creation POST of sendPayment, on the
\* pay_invoice path, has no amount_msats field when the amount passed on
\* (params.amount || 0) is 0, and has the amount passed when it is greater.
C16_NoAmountFieldWhenZero ==
  \A t \in Tasks : (PayInvoice(t) /\ cl[t].op = "send" /\ cl[t].method = "POST") =>
    LET passed == OrZero(RequestOf(t).params.amount)
        data == cl[t].body.data
    IN IF passed > 0
       THEN "amount_msats" \in DOMAIN data /\ data.amount_msats = passed
       ELSE "amount_msats" \notin DOMAIN data

\* createPaymentRequest or sendPayment is the operation of t
Creates(t) == cl[t].op \in {"create", "send"}

\* C17: the identifier of a createPaymentRequest or sendPayment call differs
\* from that of every other such call; the call's POST goes to the collection
\* with that identifier in its body, each of its GETs goes to the url of that
\* identifier, the record it returns has that identifier, and the identifier
\* does not change while the call runs.
C17_OneIdentifierPerCall ==
  /\ [](\A t \in Tasks : Creates(t) =>
          /\ \A u \in Tasks \ {t} : Creates(u) => cl[u].paymentId # cl[t].paymentId
          /\ cl[t].method = "POST" =>
               cl[t].url = GetPaymentUrl(<<>>) /\ cl[t].body.id = cl[t].paymentId
          /\ cl[t].method = "GET" => cl[t].url = GetPaymentUrl(cl[t].paymentId)
          /\ pc[t] = "returned" => ret[t].value.id = cl[t].paymentId)
  /\ [][\A t \in Tasks :
          (Creates(t) /\ cl'[t].op = cl[t].op) => cl'[t].paymentId = cl[t].paymentId]_vars

\* C17, its case: two calls, each answered 202 and returned after its GET
C17_Witness ==
  \E t, u \in Tasks :
    /\ cl[t].op = "create" /\ cl[u].op = "send"
    /\ pc[t] = "returned" /\ pc[u] = "returned"
    /\ cl[t].method = "GET" /\ cl[u].method = "GET"
    /\ cl[t].paymentId # cl[u].paymentId
    /\ ret[t].value.id = cl[t].paymentId /\ ret[u].value.id = cl[u].paymentId

\* C18 (as stated): onevent is called for an inbound event only once the
\* relay holds the info event.
C18_AnnouncedBeforeServing ==
  \A t \in Tasks : Delivered(t) => announced # Null

\* an operation of the client is running for t (suspended at a fetch or in a
\* delay) / has ended, with a record or with a failure
Running(t) == pc[t] \in {"fetch", "retry_wait", "poll_wait"}
Ended(t) == pc[t] \in {"returned", "threw"}

\* C19: the counters of the two loops stay within maxRetries (retryCount of
\* fetchWithRetry, attempts of a poll loop), a call issues at most
\* maxRetries + 1 fetches and a poll loop fetches at most maxRetries records,
\* and while every HTTP call
\* completes and every delay ends, an operation that is running ends, by
\* returning or by failing.
C19_OperationsTerminate ==
  /\ [](\A t \in Tasks :
          /\ cl[t].retryCount <= maxRetries
          /\ cl[t].tries <= maxRetries + 1
          /\ cl[t].attempts <= maxRetries
          /\ Len(cl[t].fetched) <= maxRetries
          /\ Running(t) => cl[t].attempts < maxRetries)
  /\ \A t \in Tasks : Running(t) ~> Ended(t)

\* C19, its case: a status poll whose last getPayment used up its retries
\* after the poll loop had gone round twice
C19_Witness ==
  \E t \in Tasks :
    /\ InPoll(t) /\ pc[t] = "threw" /\ maxRetries = 3
    /\ Len(cl[t].fetched) = 2 /\ cl[t].attempts = 2
    /\ cl[t].retryCount = 3 /\ cl[t].tries = 4

\* C20: while every fetch of a fetchWithRetry call has rejected, the call
\* has issued at most maxRetries + 1 fetches, has slept one retry delay before
\* each fetch but the first, and has not returned; when it fails it has
\* issued exactly maxRetries + 1 fetches and its caller gets the failure of
\* the fetch.
C20_NetworkFailureRetriesBounded ==
  \A t \in Tasks : ((Running(t) \/ Ended(t)) /\ cl[t].onlyNetwork) =>
    /\ cl[t].tries <= maxRetries + 1
    /\ cl[t].delays = cl[t].tries - 1
    /\ cl[t].retryCount = cl[t].tries - 1
    /\ pc[t] \in {"fetch", "retry_wait", "threw"}
    /\ pc[t] = "retry_wait" => cl[t].tries <= maxRetries
    /\ pc[t] = "threw" =>
         cl[t].tries = maxRetries + 1 /\ ret[t] = Rejected(NetworkErrorMessage)

\* C20, its case: the follow-up GET of sendPayment fails after maxRetries
\* retries, every fetch of it having rejected
C20_Witness ==
  \E t \in Tasks :
    /\ cl[t].op = "send" /\ cl[t].method = "GET" /\ cl[t].onlyNetwork
    /\ pc[t] = "threw" /\ ret[t] = Rejected(NetworkErrorMessage)
    /\ maxRetries = 3 /\ cl[t].tries = 4 /\ cl[t].delays = 3

\* sendPayment is the operation of t, and its creation POST was answered 202
\* (the getPayment of line 270 was called)
InSend(t) == cl[t].op = "send"
SendAccepted(t) == InSend(t) /\ cl[t].method = "GET"

\* C21: sendPayment never waits in a poll loop (no poll delay, attempts stays
\* 0); after a 202 its GET goes to the url of the generated id, it is one
\* getPayment (the count of fetches of the fetchWithRetry call in progress is
\* never reset), and every response to it that carries a record makes
\* sendPayment return that record, whatever the record's status.
C21_SendFetchesOnce ==
  /\ [](\A t \in Tasks : InSend(t) =>
          /\ pc[t] # "poll_wait" /\ cl[t].attempts = 0 /\ cl[t].fetched = <<>>
          /\ SendAccepted(t) => cl[t].url = GetPaymentUrl(cl[t].paymentId)
          /\ (SendAccepted(t) /\ pc[t] = "returned") =>
               ret[t].value \in PaymentRecords(cl[t].paymentId))
  /\ [][\A t \in Tasks : (SendAccepted(t) /\ Resumes(t, "fetch")) =>
          /\ cl'[t].op = "send" => cl'[t].tries >= cl[t].tries
          /\ \A status \in OkStatuses \ {202} : \A body \in PaymentRecords(cl[t].paymentId) :
               HttpResponseOf(t, status, body) =>
                 pc'[t] = "returned" /\ ret'[t] = Resolved(body)]_vars

\* C21, its case: 202, then one GET answered at once with a record that is
\* still sending, which sendPayment returns
C21_Witness ==
  \E t \in Tasks :
    /\ SendAccepted(t) /\ pc[t] = "returned" /\ cl[t].tries = 1
    /\ ret[t].value.status = "sending" /\ ret[t].value.id = cl[t].paymentId

\* createPaymentRequest of t is in the delay after its last fetch: attempts
\* is one short of maxRetries, so that the loop ends when the delay is over
\* and the Timeout of line 228 is thrown
TimeoutPending(t) ==
  Polling(t) /\ pc[t] = "poll_wait" /\ ~PollAgain(cl[t].attempts + 1)

\* C22 (as stated): when a getPayment of createPaymentRequest's poll loop
\* returns a record whose status is failed, the call does not go on to end in
\* the Timeout.
C22_FailedIsNotTimeout ==
  [][\A t \in Tasks : (Polling(t) /\ Resumes(t, "fetch")) =>
       \A status \in OkStatuses :
         \A body \in Bodies(status, AskedId(cl[t])) \ {EmptyBody} :
           (body.status = "failed" /\ HttpResponseOf(t, status, body))
           => ~TimeoutPending(t)']_vars

\* C23 (as stated): the promise onevent returns for an inbound event never
\* rejects.
C23_OneventNeverRejects ==
  \A t \in Tasks : Delivered(t) => (pc[t] # "rejected" /\ ret[t].settled # "rejected")

\* C24: what the requester reads in a response event the relay holds is
\* either a success (result_type is the method of the request, error is null,
\* result is not) or an error (result_type is 'error', error is {code,
\* message}, result is null); all three fields are present in both.
C24_ResultXorError ==
  \A x \in published :
    LET r == Payload(x)
        t == x.id[1]
    IN /\ DOMAIN r = {"result_type", "error", "result"}
       /\ (r.error = Null) # (r.result = Null)
       /\ r.error = Null =>
            IsRequest(t) /\ r.result_type = RequestOf(t).method
       /\ r.error # Null =>
            /\ r.result_type = "error"
            /\ DOMAIN r.error = {"code", "message"}
            /\ r.error.code \in {NOT_IMPLEMENTED, INTERNAL}

\* C24, its case: the relay holds a success response and an error response
C24_Witness ==
  \E x, y \in published :
    /\ Payload(x).error = Null /\ Payload(x).result_type = "make_invoice"
    /\ Payload(y).error # Null /\ Payload(y).result = Null

\* the relay holds a payment_received notification for the sender of the
\* request of t: an event of kind 23196, encrypted to and tagged with the
\* sender's key, without a reference to a request
NotifiedReceived(t) ==
  /\ Delivered(t)
  /\ \E x \in published :
       /\ x.kind = KindNotification /\ x.p = ev[t].pubkey /\ x.e = <<>>
       /\ Readable(x, ev[t].pubkey)
       /\ Payload(x).notification_type = "payment_received"

\* C25 (as stated): once the payment of an invoice made for a make_invoice
\* request is received, the relay eventually holds a payment_received
\* notification for the requester.
C25_PaymentReceivedNotified ==
  \A t \in Tasks : received[t] ~> NotifiedReceived(t)

\* the value a client uses for a property of its configuration, were the
\* value supplied used as it is: the default when the property is left out,
\* the value supplied otherwise
Configured(supplied, default) == IF supplied = Absent THEN default ELSE supplied

\* C26 (as stated): the client's maxRetries and retryDelay are 30 and 2000
\* when the configuration leaves them out and the value supplied otherwise (0
\* included), and a fetchWithRetry call retries at most that many times.
C26_ConfigurationUsedAsGiven ==
  /\ maxRetries = Configured(config.maxRetries, 30)
  /\ retryDelay = Configured(config.retryDelay, 2000)
  /\ \A t \in Tasks : cl[t].delays <= Configured(config.maxRetries, 30)

\* the defaults the README documents
ReadmeMaxRetries == 10
ReadmeRetryDelay == 1000

\* C27 (as stated): a client constructed without maxRetries and retryDelay
\* retries at most 10 times, with a delay of 1000 ms.
C27_ReadmeDefaults ==
  /\ config.maxRetries = Absent =>
       maxRetries = ReadmeMaxRetries /\ \A t \in Tasks : cl[t].delays <= ReadmeMaxRetries
  /\ config.retryDelay = Absent => retryDelay = ReadmeRetryDelay

\* a call on the client has returned a record of payment id whose status is
\* terminal: the client has observed the payment completed or failed
ObservedTerminal(id) ==
  \E u \in Tasks :
    /\ pc[u] = "returned" /\ ret[u].value.id = id
    /\ ret[u].value.status \in TerminalStatuses

\* C28 (as stated): when the backend answers a GET of a payment the client
\* has observed in a terminal status with a record whose status is not
\* terminal, the call fails: the record is neither returned nor polled on.
C28_TerminalNotMasked ==
  [][\A t \in Tasks :
       (Resumes(t, "fetch") /\ cl[t].method = "GET" /\ ObservedTerminal(AskedId(cl[t]))) =>
         \A status \in OkStatuses :
           \A body \in Bodies(status, AskedId(cl[t])) \ {EmptyBody} :
             (body.status \notin TerminalStatuses /\ HttpResponseOf(t, status, body))
             => pc'[t] = "threw"]_vars

\* the key pair the connection string hands to the wallet-connect client
\* (index.ts line 68: the secret in the uri is the service's own secret key)
ConnectionKey == ServiceKey

\* C29 (as stated): sendPayment is called for a pay_invoice request only when
\* the event's sender is the counterparty the connection string authorises; a
\* request signed by any other key and encrypted to the service's public key
\* calls no payment operation.
C29_OnlyAuthorisedSenderPays ==
  \A t \in Tasks :
    (PayInvoice(t) /\ ev[t].pubkey # ConnectionKey) => (~InSend(t) /\ calls[t] = 0)

\* the relay delivers once more an event it has delivered before (after a
\* reconnect, or sent twice by the relay): onevent is called with the same
\* event and awaits nip04.decrypt (lines 45-51); nothing in onevent looks at
\* the ids of the events it has been given
Redeliver(t) ==
  /\ Resumes(t, "idle") /\ initpc \in {"announcing", "ready"}
  /\ \E u \in Tasks \ {t} :
       /\ Delivered(u)
       /\ ev' = [ev EXCEPT ![t] = ev[u]]
  /\ pc' = [pc EXCEPT ![t] = "decrypt"]
  /\ seenPolling' = [seenPolling EXCEPT ![t] = {u \in Tasks : Polling(u)}]
  /\ UNCHANGED <<alive, initpc, maxRetries, retryDelay, config, nextUuid, announced, published,
                 send, cl, ret, calls, handlerError, received>>

\* the service on a transport that may deliver an event more than once
NextRedeliver ==
  \/ InitConnect
  \/ InitConnectFails
  \/ InfoPublished
  \/ InfoPublishFails
  \/ \E t \in Tasks : Deliver(t)
  \/ \E t \in Tasks : Decrypted(t)
  \/ \E t \in Tasks : HttpResponse(t)
  \/ \E t \in Tasks : NetworkError(t)
  \/ \E t \in Tasks : RetryTimer(t)
  \/ \E t \in Tasks : PollTimer(t)
  \/ \E t \in Tasks : Encrypted(t)
  \/ \E t \in Tasks : EncryptFails(t)
  \/ \E t \in Tasks : Published(t)
  \/ \E t \in Tasks : PublishRejected(t)
  \/ \E t \in Tasks : PublishTimeout(t)
  \/ \E t \in Tasks : Redeliver(t)

SpecRedeliver == Init /\ [][NextRedeliver]_vars

\* the units of work onevent was called for with the event of this id
DeliveriesOf(id) == {t \in Tasks : Delivered(t) /\ ev[t].id = id}

\* C30 (as stated): however often an event is delivered, the payment operation
\* is invoked at most once for its id and at most one response carrying its
\* id is published.
C30_RedeliveryHandledOnce ==
  \A t \in Tasks :
    Delivered(t) =>
      /\ Cardinality({u \in DeliveriesOf(ev[t].id) : calls[u] > 0}) <= 1
      /\ \A u \in DeliveriesOf(ev[t].id) : calls[u] <= 1
      /\ Cardinality({x \in published : x.e = ev[t].id}) <= 1

\* a fetchWithRetry call of t is in progress or has just ended
InFetchWithRetry(t) == cl[t].op # "none" /\ cl[t].tries > 0

\* C31: a fetchWithRetry call counts its retries after a 404, after another
\* non-success response and after a network failure in the one retryCount:
\* whatever the outcomes of its attempts, it issues at most maxRetries + 1
\* HTTP requests, one per value of retryCount, with one delay before each but
\* the first; retryCount never goes back while the call lasts, and the attempt
\* made with retryCount = maxRetries is the last (when it fails, no attempt
\* that came before it tries again).
C31_SharedRetryCounter ==
  /\ [](\A t \in Tasks : InFetchWithRetry(t) =>
          /\ cl[t].tries <= maxRetries + 1
          /\ cl[t].retryCount = cl[t].tries - 1
          /\ cl[t].delays = cl[t].tries - 1
          /\ pc[t] = "retry_wait" => cl[t].tries <= maxRetries)
  /\ [][\A t \in Tasks :
          /\ (InFetchWithRetry(t) /\ cl'[t].tries > 1) => cl'[t].retryCount >= cl[t].retryCount
          /\ (pc[t] = "fetch" /\ cl[t].retryCount = maxRetries) => pc'[t] # "retry_wait"]_vars

\* C31, its case: a call that failed at its last attempt with a 404, after a
\* response that was neither a success nor a 404 and maxRetries retries in all
C31_Witness ==
  \E t \in Tasks :
    /\ pc[t] = "threw" /\ ret[t] = Rejected(HttpErrorMessage(404))
    /\ cl[t].sawRefusal /\ ~cl[t].only404 /\ ~cl[t].onlyNetwork
    /\ maxRetries = 3 /\ cl[t].tries = 4 /\ cl[t].retryCount = 3

\* the creation POST of createPaymentRequest or sendPayment is in progress
\* for t: a fetch of it is awaited, or the delay before its next retry
Posting(t) ==
  /\ cl[t].op \in {"create", "send"} /\ cl[t].method = "POST"
  /\ pc[t] \in {"fetch", "retry_wait"}

\* C32: while the creation POST of a call is in progress, every attempt of it
\* goes to the same url with the same body, whose id is the call's payment
\* id; a retry generates no identifier, and the identifier of the call is one
\* of those generated so far.
C32_RetriesKeepPaymentId ==
  /\ [](\A t \in Tasks : Posting(t) =>
          /\ cl[t].body.id = cl[t].paymentId
          /\ cl[t].url = GetPaymentUrl(<<>>)
          /\ \E k \in 0..(nextUuid - 1) : cl[t].paymentId = Uuid(k))
  /\ [][\A t \in Tasks :
          /\ (Posting(t) /\ Posting(t)') =>
               /\ cl'[t].body = cl[t].body
               /\ cl'[t].paymentId = cl[t].paymentId
               /\ cl'[t].url = cl[t].url
          /\ (pc[t] = "retry_wait" /\ pc'[t] = "fetch") => nextUuid' = nextUuid]_vars

\* C32, its case: the third attempt of a creation POST is in flight, after a
\* 404 or network failure and a response that was neither a success nor a 404
C32_Witness ==
  \E t \in Tasks :
    /\ Posting(t) /\ pc[t] = "fetch" /\ cl[t].tries = 3
    /\ cl[t].sawRefusal /\ cl[t].body.id = Uuid(0) /\ nextUuid = 1

\* C33 (as stated): every success response to make_invoice the relay holds
\* carries an invoice text that is not empty.
C33_MakeInvoiceHasInvoice ==
  \A x \in published :
    Payload(x).result_type = "make_invoice" => Payload(x).result.invoice # ""

\* createPaymentRequest is the operation of t
InCreate(t) == cl[t].op = "create"

\* C34: a createPaymentRequest call has issued at most maxRetries + 1 POSTs
\* and at most maxRetries * (maxRetries + 1) GETs, at every moment and so
\* when it returns or fails; it issues no POST once a GET has gone out.
C34_CreateRequestCount ==
  \A t \in Tasks : InCreate(t) =>
    /\ cl[t].posts <= maxRetries + 1
    /\ cl[t].gets <= maxRetries * (maxRetries + 1)
    /\ cl[t].method = "POST" => cl[t].gets = 0

\* C34, its case: a createPaymentRequest call that has failed after issuing
\* as many POSTs and as many GETs as the bound allows
C34_Witness ==
  \E t \in Tasks :
    /\ InCreate(t) /\ pc[t] = "threw" /\ maxRetries = 2
    /\ cl[t].posts = maxRetries + 1
    /\ cl[t].gets = maxRetries * (maxRetries + 1)

\* the methods handleRequest's switch has a case for (lines 94-105)
DispatchedMethods == {"pay_invoice", "make_invoice", "get_balance", "get_info"}

\* the failure the default branch of the switch raises (line 107)
UnhandledMessages == {"Unhandled method: " \o r.method : r \in Requests}

\* C35: no request reaches the default branch of handleRequest's switch (the
\* step that dispatches a request never enters handleRequest's catch block,
\* and no 'Unhandled method' failure is raised or sent); the methods the info
\* event advertises are the four the switch has a case for, and every success
\* response is the response to one of them.
C35_SupportedMethodsHandled ==
  /\ [](/\ \A t \in Tasks :
             /\ handlerError[t] \notin UnhandledMessages
             /\ send[t].response # Null =>
                  (send[t].response.error # Null =>
                     send[t].response.error.message \notin UnhandledMessages)
        /\ announced # Null => SeqToSet(announced.content) = DispatchedMethods
        /\ \A x \in published :
             /\ Payload(x).result_type # "error" => Payload(x).result_type \in DispatchedMethods
             /\ Payload(x).error # Null => Payload(x).error.message \notin UnhandledMessages)
  /\ [][\A t \in Tasks :
          (pc[t] = "decrypt" /\ pc'[t] # "decrypt") => send'[t].site # "handlerCatch"]_vars

\* C35, its case: the info event is published, and the relay holds a success
\* response to pay_invoice and one to make_invoice
C35_Witness ==
  /\ announced # Null
  /\ \E x, y \in published :
       /\ Payload(x).result_type = "pay_invoice" /\ Payload(x).result # Null
       /\ Payload(y).result_type = "make_invoice" /\ Payload(y).result # Null

\* the request of t is one the service answers from what it holds itself
\* (handleGetBalance, handleGetInfo)
AnsweredLocally(t) == IsRequest(t) /\ RequestOf(t).method \in {"get_balance", "get_info"}

====
